---- MODULE Spec2Model ----
(***************************************************************************)
(* REINFORCE policy-gradient notebook                                      *)
(* (chapter17_deep-reinforcement-learning/policy-gradient.ipynb):          *)
(* the Episode buffer, run_episode, Agent.act, Agent.train, the training   *)
(* loop, and the AtariPreprocessedEnv wrapper.                             *)
(*                                                                         *)
(* Python floats are modelled as exact rationals <<numerator, denominator>>*)
(* in lowest terms, so 0.99 is <<99, 100>>.  The gym environment, the      *)
(* policy network and the Adam optimizer are external: the environment     *)
(* returns any observation, reward and done flag; the network is a table   *)
(* from observations to action distributions, and an optimizer step may    *)
(* replace that table by any other.                                        *)
(***************************************************************************)
EXTENDS Integers, Sequences, FiniteSets, TLC

VARIABLES
    pc,            \* position of the notebook's training cell
    i,             \* loop index of "for i in range(n_episodes)"
    mean_reward,   \* moving average of the episode reward
    reward_log,    \* list of the moving averages
    reward,        \* sum(episode.reward) of the current round
    printed,       \* the progress lines printed so far
    episode,       \* the Episode object of the current round
    observation,   \* run_episode's local observation
    action,        \* run_episode's local action
    done,          \* run_episode's local done
    net,           \* Agent.net: the policy parameters, as a table Obs -> policy
    num_update,    \* number of optimizer updates applied to the parameters
    r,             \* Agent.train's NDArray r
    a,             \* Agent.train's one-hot NDArray a
    loss,          \* Agent.train's loss
    grad,          \* whether loss.backward() has filled the gradient buffers
    raised,        \* whether an exception has propagated out of the program
    trace,         \* history: the calls of env, agent and trainer in this round
    returned,      \* history: the Episode as run_episode returned it
    collections,   \* history: number of run_episode calls that returned
    updates,       \* history: number of Agent.train calls that returned
    pre_image,     \* AtariPreprocessedEnv.pre_image
    atari_return,  \* the observation AtariPreprocessedEnv last returned
    history        \* history: the reset and step calls of AtariPreprocessedEnv

\* the variables of the training cell, run_episode and Agent.train
loop_vars == <<pc, i, mean_reward, reward_log, reward, printed, episode,
               observation, action, done, net, num_update, r, a, loss, grad,
               raised, trace, returned, collections, updates>>

\* the variables of AtariPreprocessedEnv
atari_vars == <<pre_image, atari_return, history>>

vars == <<loop_vars, atari_vars>>

-----------------------------------------------------------------------------
(* Bounds of the model *)

\* longest episode the modelled environment plays
MaxSteps == 2

\* longest Episode handed to Agent.train when it is called on its own
MaxLen == 3

\* number of rounds of the training loop (the notebook runs 1000)
n_episodes == 2

\* observations the modelled environment can return
Obs == {0, 1}

\* rewards the modelled environment can return
Rewards == {0, 1}

\* rewards in the Episodes handed to Agent.train when it is called on its own
TrainRewards == {0 - 1, 0, 1}

\* number of reset and step calls made on an AtariPreprocessedEnv
MaxCalls == 3

\* pixel values of the raw frames: the two background colours 144 and 109,
\* black, and one foreground colour
Pixels == {0, 109, 144, 200}

\* the raw frames (one column of five pixels stands for 210x160x3)
RawFrames == [1..5 -> Pixels]

-----------------------------------------------------------------------------
(* Program constants *)

\* env.action_space.n of CartPole-v1: Discrete(2)
action_number == 2

\* "if i % 50 == 0"
print_every == 50

-----------------------------------------------------------------------------
(* Exact rational arithmetic standing for Python / NDArray float arithmetic *)

Abs(x) == IF x < 0 THEN 0 - x ELSE x

RECURSIVE GCD(_, _)
GCD(x, y) == IF y = 0 THEN x ELSE GCD(y, x % y)

\* the rational n/d (d > 0) in lowest terms
Norm(n, d) == LET g == GCD(Abs(n), d) IN <<n \div g, d \div g>>

\* an integer as a rational
Rat(n) == <<n, 1>>

RAdd(x, y) ==
    LET g == GCD(x[2], y[2])
        l == x[2] * (y[2] \div g)
    IN Norm(x[1] * (l \div x[2]) + y[1] * (l \div y[2]), l)

RNeg(x) == <<0 - x[1], x[2]>>

RSub(x, y) == RAdd(x, RNeg(y))

RMul(x, y) ==
    LET g1 == GCD(Abs(x[1]), y[2])
        g2 == GCD(Abs(y[1]), x[2])
    IN IF x[1] = 0 \/ y[1] = 0 THEN <<0, 1>>
       ELSE <<(x[1] \div g1) * (y[1] \div g2), (x[2] \div g2) * (y[2] \div g1)>>

\* x / n for an integer n > 0
RDivInt(x, n) == RMul(x, <<1, n>>)

RECURSIVE RSum(_)
RSum(xs) == IF xs = <<>> THEN Rat(0) ELSE RAdd(Head(xs), RSum(Tail(xs)))

-----------------------------------------------------------------------------
(* Episode *)

\* Episode.__init__
EpisodeNew == [observation |-> <<>>, action |-> <<>>, reward |-> <<>>]

\* variant of Episode.append that forgets self.reward.append(r)
EpisodeAppend_NoReward(e, s0, a0, r0) ==
    [observation |-> Append(e.observation, s0),
     action      |-> Append(e.action, a0),
     reward      |-> e.reward]

\* Episode.append(s, a, r)
EpisodeAppend(e, s0, a0, r0) ==
    [observation |-> Append(e.observation, s0),
     action      |-> Append(e.action, a0),
     reward      |-> Append(e.reward, r0)]

-----------------------------------------------------------------------------
(* The policy network and its softmax *)

\* outputs (logits) the modelled network can produce for one observation
Logits == {<<0, 0>>, <<200, 0>>}

\* the parameter tables: what self.net computes for each observation
Nets == [Obs -> Logits]

\* mx.nd.softmax over two logits, in millionths.  In float32 exp(-200)
\* underflows to 0, so a gap of 200 saturates to probabilities 1 and 0.
softmax(z) ==
    IF z[1] = z[2] THEN <<500000, 500000>>
    ELSE IF z[1] > z[2] THEN <<1000000, 0>>
    ELSE <<0, 1000000>>

\* the clip bounds 1e-6 and 1 - 1e-6, in millionths
clip_min == 1
clip_max == 999999

\* mx.nd.clip(policy, 1e-6, 1 - 1e-6), elementwise
clip(p) ==
    [j \in DOMAIN p |->
        IF p[j] < clip_min THEN clip_min
        ELSE IF p[j] > clip_max THEN clip_max
        ELSE p[j]]

\* a float that is not finite (-inf, inf or nan)
NonFinite == <<0, 0>>

IsFinite(x) == x[2] # 0

\* mx.nd.log of a probability given in millionths, rounded to the nearest
\* integer: ln(1e-6) = -13.8, ln(0.5) = -0.69, ln(1 - 1e-6) = -0.000001
log1(q) ==
    IF q = 0 THEN NonFinite
    ELSE IF q < 250000 THEN Rat(0 - 14)
    ELSE IF q < 750000 THEN Rat(0 - 1)
    ELSE Rat(0)

log(p) == [j \in DOMAIN p |-> log1(p[j])]

\* NDArray.one_hot(self.action_number) of one action index
one_hot(a0) == [j \in 1..action_number |-> IF j = a0 + 1 THEN 1 ELSE 0]

\* a product of floats, one of which may be non-finite
FMul(x, y) == IF IsFinite(x) /\ IsFinite(y) THEN RMul(x, y) ELSE NonFinite

FAdd(x, y) == IF IsFinite(x) /\ IsFinite(y) THEN RAdd(x, y) ELSE NonFinite

FNeg(x) == IF IsFinite(x) THEN RNeg(x) ELSE NonFinite

RECURSIVE FSum(_)
FSum(xs) == IF xs = <<>> THEN Rat(0) ELSE FAdd(Head(xs), FSum(Tail(xs)))

-----------------------------------------------------------------------------
(* Agent *)

\* Agent.act: the actions np.random.choice can draw under softmax(net(obs))
act(nt, obs) ==
    LET policy == softmax(nt[obs])
    IN {a0 \in 0..(action_number - 1) : policy[a0 + 1] > 0}

\* variant without discounting: discount = 1.0
discount_One == <<1, 1>>

\* the discount factor 0.99
discount == <<99, 100>>

\* Agent.train's discount loop: the list r after
\*   keep = 0; for i in reversed(range(len(r))): keep = keep*discount + r[i]; r[i] = keep
\* DiscountFrom(rs, k, keep) runs the iterations i = k, k-1, ..., 1.
RECURSIVE DiscountFrom(_, _, _)
DiscountFrom(rs, k, keep) ==
    IF k = 0 THEN rs
    ELSE LET keep1 == RAdd(RMul(keep, discount), rs[k])
         IN DiscountFrom([rs EXCEPT ![k] = keep1], k - 1, keep1)

\* variant of the discount loop that iterates range(len(r)) forwards
RECURSIVE DiscountUp(_, _, _)
DiscountUp(rs, k, keep) ==
    IF k > Len(rs) THEN rs
    ELSE LET keep1 == RAdd(RMul(keep, discount), rs[k])
         IN DiscountUp([rs EXCEPT ![k] = keep1], k + 1, keep1)

Discounted_Forward(rs) == DiscountUp(rs, 1, Rat(0))

Discounted(rs) == DiscountFrom(rs, Len(rs), Rat(0))

\* variant without a baseline: the mean is taken to be 0
mean_Zero(xs) == Rat(0)

\* mx.nd.mean(r); the mean of an empty array is not a number
mean(xs) == IF xs = <<>> THEN NonFinite ELSE RDivInt(RSum(xs), Len(xs))

\* variant of the baseline that subtracts mx.nd.sum(r)
SubtractBaseline_Sum(xs) == [t \in DOMAIN xs |-> RSub(xs[t], RSum(xs))]

\* r -= mx.nd.mean(r), elementwise
SubtractBaseline(xs) == [t \in DOMAIN xs |-> RSub(xs[t], mean(xs))]

\* the entries of r * log_policy * a, row t (r is broadcast along the row)
LossRow(nt, obs, rt, at) ==
    LET log_policy == log(clip(softmax(nt[obs])))
    IN [j \in 1..action_number |-> FMul(FMul(rt, log_policy[j]), Rat(at[j]))]

\* loss = -mx.nd.sum(r * log_policy * a)
Loss(nt, s, rs, as) ==
    FNeg(FSum([t \in DOMAIN s |-> FSum(LossRow(nt, s[t], rs[t], as[t]))]))

-----------------------------------------------------------------------------
(* AtariPreprocessedEnv *)

\* Python's None
None == <<>>

\* img = img[35:195]: the rows above and below the playing field are cut off
Crop(img) == SubSeq(img, 2, Len(img) - 1)

\* img = img[::2, ::2, 0]: every second pixel
Downsample(img) == [k \in 1..((Len(img) + 1) \div 2) |-> img[2 * k - 1]]

\* img[img == 144] = 0; img[img == 109] = 0; img[img != 0] = 1
Binarize(img) ==
    [k \in DOMAIN img |-> IF img[k] = 144 \/ img[k] = 109 \/ img[k] = 0 THEN 0 ELSE 1]

\* curr = img.astype(np.float).ravel()
Curr(img) == Binarize(Downsample(Crop(img)))

\* np.zeros_like(curr)
zeros_like(v) == [k \in DOMAIN v |-> 0]

\* curr - self.pre_image, elementwise
VSub(x, y) == [k \in DOMAIN x |-> x[k] - y[k]]

\* _preprocess(img) with self.pre_image = pre: the value it returns and the
\* value it leaves in self.pre_image
Preprocess(pre, img) ==
    LET curr == Curr(img)
    IN [diff      |-> IF pre # None THEN VSub(curr, pre) ELSE zeros_like(curr),
        pre_image |-> curr]

\* one call of the wrapper: the preprocessed frame it saw, what it returned
AtariCall(op, img, out) == [op |-> op, frame |-> Curr(img), out |-> out]

\* a client holds a new AtariPreprocessedEnv; no training loop runs
AtariInit ==
    /\ pc = "atari"
    /\ i = 0
    /\ mean_reward = Rat(0)
    /\ reward_log = <<>>
    /\ reward = Rat(0)
    /\ printed = <<>>
    /\ episode = EpisodeNew
    /\ observation = 0
    /\ action = 0
    /\ done = FALSE
    /\ net = [o \in Obs |-> <<0, 0>>]
    /\ num_update = 0
    /\ r = <<>>
    /\ a = <<>>
    /\ loss = Rat(0)
    /\ grad = FALSE
    /\ raised = FALSE
    /\ trace = <<>>
    /\ returned = EpisodeNew
    /\ collections = 0
    /\ updates = 0
    /\ pre_image = None
    /\ atari_return = None
    /\ history = <<>>

\* variant of reset without "self.pre_image = None"
AtariReset_KeepPreImage ==
    /\ pc = "atari"
    /\ Len(history) < MaxCalls
    /\ \E img \in RawFrames :
        LET res == Preprocess(pre_image, img)
        IN /\ pre_image' = res.pre_image
           /\ atari_return' = res.diff
           /\ history' = Append(history, AtariCall("reset", img, res.diff))
    /\ UNCHANGED loop_vars

\* reset(): self.pre_image = None; return self._preprocess(self.env.reset())
AtariReset ==
    /\ pc = "atari"
    /\ Len(history) < MaxCalls
    /\ \E img \in RawFrames :
        LET res == Preprocess(None, img)
        IN /\ pre_image' = res.pre_image
           /\ atari_return' = res.diff
           /\ history' = Append(history, AtariCall("reset", img, res.diff))
    /\ UNCHANGED loop_vars

\* step(action): o, r, d, i = self.env.step(action);
\* return self._preprocess(o), r, d, i
AtariStep ==
    /\ pc = "atari"
    /\ Len(history) < MaxCalls
    /\ \E img \in RawFrames :
        LET res == Preprocess(pre_image, img)
        IN /\ pre_image' = res.pre_image
           /\ atari_return' = res.diff
           /\ history' = Append(history, AtariCall("step", img, res.diff))
    /\ UNCHANGED loop_vars

NextAtari ==
    \/ AtariReset
    \/ AtariStep

SpecAtari == AtariInit /\ [][NextAtari]_vars

-----------------------------------------------------------------------------
(* History of calls *)

\* one call of the environment, the agent or the trainer, with what it was
\* given and what it returned (fields a call does not have hold 0 / FALSE)
Call(op, obs, act0, rew, dn, batch_size) ==
    [op |-> op, obs |-> obs, action |-> act0, reward |-> rew, done |-> dn,
     batch_size |-> batch_size]

-----------------------------------------------------------------------------
(* Initial state: the cell's assignments before the for loop *)

Init ==
    /\ pc = "for"
    /\ i = 0
    /\ mean_reward = Rat(0)
    /\ reward_log = <<>>
    /\ reward = Rat(0)
    /\ printed = <<>>
    /\ episode = EpisodeNew
    /\ observation = 0
    /\ action = 0
    /\ done = FALSE
    /\ net \in Nets
    /\ num_update = 0
    /\ r = <<>>
    /\ a = <<>>
    /\ loss = Rat(0)
    /\ grad = FALSE
    /\ raised = FALSE
    /\ trace = <<>>
    /\ returned = EpisodeNew
    /\ collections = 0
    /\ updates = 0
    /\ pre_image = None
    /\ atari_return = None
    /\ history = <<>>

-----------------------------------------------------------------------------
(* The training loop and run_episode *)

\* "for i in range(n_episodes)": enter the body for the next index
ForNext ==
    /\ pc = "for"
    /\ i < n_episodes
    /\ pc' = "run_episode"
    /\ UNCHANGED <<atari_vars, i, mean_reward, reward_log, reward, printed, episode,
                   observation, action, done, net, num_update, r, a, loss,
                   grad, raised, trace, returned, collections, updates>>

\* the range is exhausted: print("done")
ForExit ==
    /\ pc = "for"
    /\ i = n_episodes
    /\ pc' = "done"
    /\ printed' = Append(printed, <<"done">>)
    /\ UNCHANGED <<atari_vars, i, mean_reward, reward_log, reward, episode, observation,
                   action, done, net, num_update, r, a, loss, grad, raised,
                   trace, returned, collections, updates>>

\* variant of the loop condition: "while True"
WhileNotDone_Always(d) == TRUE

\* the loop condition "while not done"
WhileNotDone(d) == ~d

\* variant of the append that records the post-step observation
AppendTransition_PostStep(e, obs, act0, next_obs, rew) ==
    EpisodeAppend(e, next_obs, act0, Rat(rew))

\* episode.append(observation, action, reward) after
\* next_observation, reward, done, _ = env.step(action)
AppendTransition(e, obs, act0, next_obs, rew) ==
    EpisodeAppend(e, obs, act0, Rat(rew))

\* run_episode: episode = Episode(); observation = env.reset(); done = False
RunEpisodeReset ==
    /\ pc = "run_episode"
    /\ \E o \in Obs :
        /\ observation' = o
        /\ trace' = Append(trace, Call("reset", o, 0, 0, FALSE, 0))
    /\ episode' = EpisodeNew
    /\ done' = FALSE
    /\ pc' = "while"
    /\ UNCHANGED <<atari_vars, i, mean_reward, reward_log, reward, printed, action, net,
                   num_update, r, a, loss, grad, raised, returned,
                   collections, updates>>

\* "while not done:" entered; action = agent.act(observation)
AgentAct ==
    /\ pc = "while"
    /\ WhileNotDone(done)
    /\ Len(episode.reward) < MaxSteps
    /\ \E a0 \in act(net, observation) :
        /\ action' = a0
        /\ trace' = Append(trace, Call("act", observation, a0, 0, FALSE, 0))
    /\ pc' = "step"
    /\ UNCHANGED <<atari_vars, i, mean_reward, reward_log, reward, printed, episode,
                   observation, done, net, num_update, r, a, loss, grad,
                   raised, returned, collections, updates>>

\* next_observation, reward, done, _ = env.step(action);
\* episode.append(observation, action, reward); observation = next_observation
\* (render is False in the training loop)
EnvStep ==
    /\ pc = "step"
    /\ \E next_observation \in Obs, rew \in Rewards, d \in BOOLEAN :
        /\ episode' = AppendTransition(episode, observation, action,
                                       next_observation, rew)
        /\ observation' = next_observation
        /\ done' = d
        /\ trace' = Append(trace, Call("step", next_observation, action, rew, d, 0))
    /\ pc' = "while"
    /\ UNCHANGED <<atari_vars, i, mean_reward, reward_log, reward, printed, action, net,
                   num_update, r, a, loss, grad, raised, returned,
                   collections, updates>>

\* variant of the return with a step cap: the loop is also left after one step
RunEpisodeReturn_StepCap ==
    /\ pc = "while"
    /\ (done \/ Len(episode.reward) >= 1)
    /\ returned' = episode
    /\ collections' = collections + 1
    /\ observation' = 0
    /\ action' = 0
    /\ done' = FALSE
    /\ pc' = "reward"
    /\ UNCHANGED <<atari_vars, i, mean_reward, reward_log, reward, printed, episode, net,
                   num_update, r, a, loss, grad, raised, trace, updates>>

\* "while not done:" left; return episode.  The locals go out of scope.
RunEpisodeReturn ==
    /\ pc = "while"
    /\ ~WhileNotDone(done)
    /\ returned' = episode
    /\ collections' = collections + 1
    /\ observation' = 0
    /\ action' = 0
    /\ done' = FALSE
    /\ pc' = "reward"
    /\ UNCHANGED <<atari_vars, i, mean_reward, reward_log, reward, printed, episode, net,
                   num_update, r, a, loss, grad, raised, trace, updates>>

\* variant of the episode reward: the sum taken after Agent.train has
\* overwritten episode.reward with the discounted returns
TotalReward_AfterTrain(e) == RSum(Discounted(e.reward))

\* sum(episode.reward)
TotalReward(e) == RSum(e.reward)

\* variant of the moving average without the "if i == 0" branch
MovingAverage_NoFirst(idx, m, rw) ==
    RAdd(RMul(<<99, 100>>, m), RMul(<<1, 100>>, rw))

\* if i == 0: mean_reward = reward
\* else: mean_reward = 0.99 * mean_reward + 0.01 * reward
MovingAverage(idx, m, rw) ==
    IF idx = 0 THEN rw
    ELSE RAdd(RMul(<<99, 100>>, m), RMul(<<1, 100>>, rw))

\* variant of the loop body that never calls agent.train(episode)
LoopReward_SkipTrain ==
    /\ pc = "reward"
    /\ LET rw == TotalReward(episode)
           m  == MovingAverage(i, mean_reward, rw)
       IN /\ reward' = rw
          /\ mean_reward' = m
          /\ reward_log' = Append(reward_log, m)
    /\ pc' = "print"
    /\ UNCHANGED <<atari_vars, i, printed, episode, observation, action, done, net,
                   num_update, r, a, loss, grad, raised, trace, returned,
                   collections, updates>>

\* reward = sum(episode.reward); the moving average; reward_log.append
LoopReward ==
    /\ pc = "reward"
    /\ LET rw == TotalReward(episode)
           m  == MovingAverage(i, mean_reward, rw)
       IN /\ reward' = rw
          /\ mean_reward' = m
          /\ reward_log' = Append(reward_log, m)
    /\ pc' = "train"
    /\ UNCHANGED <<atari_vars, i, printed, episode, observation, action, done, net,
                   num_update, r, a, loss, grad, raised, trace, returned,
                   collections, updates>>

-----------------------------------------------------------------------------
(* Agent.train(episode) *)

\* variant of the discount loop that works on a copy of episode.reward
TrainDiscount_OnCopy ==
    /\ pc = "train"
    /\ pc' = "arrays"
    /\ UNCHANGED <<atari_vars, i, mean_reward, reward_log, reward, printed, episode,
                   observation, action, done, net, num_update, r, a, loss,
                   grad, raised, trace, returned, collections, updates>>

\* s, a, r = episode.observation, episode.action, episode.reward and the
\* discount loop.  r is the list episode.reward itself, so "r[i] = keep"
\* writes into the Episode.
TrainDiscount ==
    /\ pc = "train"
    /\ episode' = [episode EXCEPT !.reward = Discounted(episode.reward)]
    /\ pc' = "arrays"
    /\ UNCHANGED <<atari_vars, i, mean_reward, reward_log, reward, printed, observation,
                   action, done, net, num_update, r, a, loss, grad, raised,
                   trace, returned, collections, updates>>

\* s, a, r = mx.nd.array(...): a is one-hot, r is a new array of shape
\* (len(r), 1); then r -= mx.nd.mean(r)
TrainArrays ==
    /\ pc = "arrays"
    /\ a' = [t \in DOMAIN episode.action |-> one_hot(episode.action[t])]
    /\ r' = SubtractBaseline(episode.reward)
    /\ pc' = "forward"
    /\ UNCHANGED <<atari_vars, i, mean_reward, reward_log, reward, printed, episode,
                   observation, action, done, net, num_update, loss, grad,
                   raised, trace, returned, collections, updates>>

\* with autograd.record(): output, policy, log_policy, loss
TrainForward ==
    /\ pc = "forward"
    /\ loss' = Loss(net, episode.observation, r, a)
    /\ pc' = "backward"
    /\ UNCHANGED <<atari_vars, i, mean_reward, reward_log, reward, printed, episode,
                   observation, action, done, net, num_update, r, a, grad,
                   raised, trace, returned, collections, updates>>

\* loss.backward()
TrainBackward ==
    /\ pc = "backward"
    /\ grad' = TRUE
    /\ trace' = Append(trace, Call("backward", 0, 0, 0, FALSE, 0))
    /\ pc' = "trainer_step"
    /\ UNCHANGED <<atari_vars, i, mean_reward, reward_log, reward, printed, episode,
                   observation, action, done, net, num_update, r, a, loss,
                   raised, returned, collections, updates>>

\* variant of the batch size: trainer.step(1)
StepBatchSize_One(e) == 1

\* len(s), the batch size handed to trainer.step: s is the NDArray of the
\* episode's observations
StepBatchSize(e) == Len(e.observation)

\* self.trainer.step(len(s)): one Adam update of the parameters, after which
\* train returns and its locals go out of scope
TrainerStep ==
    /\ pc = "trainer_step"
    /\ net' \in Nets
    /\ num_update' = num_update + 1
    /\ trace' = Append(trace, Call("trainer_step", 0, 0, 0, FALSE,
                                   StepBatchSize(episode)))
    /\ updates' = updates + 1
    /\ r' = <<>>
    /\ a' = <<>>
    /\ loss' = Rat(0)
    /\ grad' = FALSE
    /\ pc' = "print"
    /\ UNCHANGED <<atari_vars, i, mean_reward, reward_log, reward, printed, episode,
                   observation, action, done, raised, returned, collections>>

\* if i % 50 == 0: print(...); then the loop takes the next index.  The
\* round's Episode and reward are never read again (line 239 and 240 rebind
\* them in the next round), so the model drops them, and the round's history,
\* here.
LoopPrint ==
    /\ pc = "print"
    /\ printed' = IF i % print_every = 0
                  THEN Append(printed, <<i, reward, mean_reward>>)
                  ELSE printed
    /\ i' = i + 1
    /\ episode' = EpisodeNew
    /\ reward' = Rat(0)
    /\ returned' = EpisodeNew
    /\ trace' = <<>>
    /\ pc' = "for"
    /\ UNCHANGED <<atari_vars, mean_reward, reward_log, observation, action, done, net,
                   num_update, r, a, loss, grad, raised, collections, updates>>

-----------------------------------------------------------------------------
(* The notebook's training cell *)

Next ==
    \/ ForNext
    \/ ForExit
    \/ RunEpisodeReset
    \/ AgentAct
    \/ EnvStep
    \/ RunEpisodeReturn
    \/ LoopReward
    \/ TrainDiscount
    \/ TrainArrays
    \/ TrainForward
    \/ TrainBackward
    \/ TrainerStep
    \/ LoopPrint

Spec == Init /\ [][Next]_vars

-----------------------------------------------------------------------------
(* Agent.train called on its own, with any Episode *)

\* the Episodes of n steps
EpisodesOfLen(n) ==
    { [observation |-> s0, action |-> a0, reward |-> [t \in 1..n |-> Rat(r0[t])]] :
        s0 \in [1..n -> Obs],
        a0 \in [1..n -> 0..(action_number - 1)],
        r0 \in [1..n -> TrainRewards] }

\* a caller holds an Episode of 0..MaxLen steps and calls agent.train(episode)
TrainInit ==
    /\ pc = "train"
    /\ \E n \in 0..MaxLen : episode \in EpisodesOfLen(n)
    /\ returned = episode
    /\ i = 0
    /\ mean_reward = Rat(0)
    /\ reward_log = <<>>
    /\ reward = Rat(0)
    /\ printed = <<>>
    /\ observation = 0
    /\ action = 0
    /\ done = FALSE
    /\ net \in Nets
    /\ num_update = 0
    /\ r = <<>>
    /\ a = <<>>
    /\ loss = Rat(0)
    /\ grad = FALSE
    /\ raised = FALSE
    /\ trace = <<>>
    /\ collections = 0
    /\ updates = 0
    /\ pre_image = None
    /\ atari_return = None
    /\ history = <<>>

\* Agent.train has no check of len(r).  What mx.nd.array, mx.nd.mean, the
\* network and trainer.step(0) do with empty arrays is the library's
\* business: any of them may raise, and the exception leaves train.
LibraryRaises ==
    /\ pc \in {"arrays", "forward", "backward", "trainer_step"}
    /\ episode.observation = <<>>
    /\ raised' = TRUE
    /\ pc' = "raised"
    /\ UNCHANGED <<atari_vars, i, mean_reward, reward_log, reward, printed, episode,
                   observation, action, done, net, num_update, r, a, loss,
                   grad, trace, returned, collections, updates>>

NextTrain ==
    \/ TrainDiscount
    \/ TrainArrays
    \/ TrainForward
    \/ TrainBackward
    \/ TrainerStep
    \/ LibraryRaises

SpecTrain == TrainInit /\ [][NextTrain]_vars

\* the statements of run_episode
RunEpisode == RunEpisodeReset \/ AgentAct \/ EnvStep \/ RunEpisodeReturn

\* The cell is one thread of straight-line code and every call of the
\* environment and of the agent returns: whenever a statement of run_episode
\* can run, it runs.
FairSpec == Spec /\ WF_vars(RunEpisode)

-----------------------------------------------------------------------------
(* Phases of one round, and the calls of the round's collection *)

Collecting == {"run_episode", "while", "step"}

Updating == {"train", "arrays", "forward", "backward", "trainer_step"}

\* run_episode of the current round has returned
AfterReturn == {"reward"} \cup Updating \cup {"print"}

IsCollectCall(c) == c.op \in {"reset", "act", "step"}

CollectCalls == SelectSeq(trace, IsCollectCall)

IsTrainCall(c) == c.op \in {"backward", "trainer_step"}

TrainCalls == SelectSeq(trace, IsTrainCall)

-----------------------------------------------------------------------------
(* C1 *)

\* C1: the three lists of the Episode have the same length in every state
\* (while it is being collected and afterwards), and the Episode that
\* run_episode returned has at least one step.
C1_EpisodeAligned ==
    /\ Len(episode.observation) = Len(episode.action)
    /\ Len(episode.action) = Len(episode.reward)
    /\ pc = "reward" => Len(episode.observation) >= 1

\* run_episode has just returned an Episode of two steps
C1_Witness == pc = "reward" /\ Len(episode.reward) = 2

-----------------------------------------------------------------------------
(* C2 *)

\* C2: when run_episode returns an Episode of T steps, the round's calls are
\* reset, then T times (act, step), and for every index k: observation[k] is
\* what reset returned (k = 1) or what step k-1 returned (k > 1), act was
\* called with observation[k] and returned action[k], and step k was called
\* with action[k] and returned reward[k].  The T recorded observations are
\* those of calls 1, 3, ..., 2T-1: what the last step returned is recorded
\* nowhere.
C2_IndexAlignment ==
    pc = "reward" =>
        LET T == Len(episode.observation)
        IN /\ Len(trace) = 2 * T + 1
           /\ \A k \in 1..T :
                /\ trace[2 * k - 1].op = (IF k = 1 THEN "reset" ELSE "step")
                /\ episode.observation[k] = trace[2 * k - 1].obs
                /\ trace[2 * k].op = "act"
                /\ trace[2 * k].obs = episode.observation[k]
                /\ trace[2 * k].action = episode.action[k]
                /\ trace[2 * k + 1].op = "step"
                /\ trace[2 * k + 1].action = episode.action[k]
                /\ Rat(trace[2 * k + 1].reward) = episode.reward[k]

\* an Episode of two steps is returned, its two observations differ and the
\* last step returned an observation other than the second recorded one
C2_Witness ==
    /\ pc = "reward"
    /\ Len(episode.observation) = 2
    /\ episode.observation[1] # episode.observation[2]
    /\ trace[5].obs # episode.observation[2]

-----------------------------------------------------------------------------
(* C3 *)

\* C3: in one round the first call is the only env.reset(); after it act and
\* step alternate, act first; no call follows a step that returned done; and
\* once run_episode has returned, the last call of the collection is a step
\* that returned done, the only one, and the Episode has one entry per step.
C3_CallOrder ==
    LET n == Len(CollectCalls)
    IN /\ pc \in ({"while", "step"} \cup AfterReturn) =>
            n >= 1 /\ CollectCalls[1].op = "reset"
       /\ \A k \in 2..n :
            CollectCalls[k].op = (IF k % 2 = 0 THEN "act" ELSE "step")
       /\ \A k \in 1..n :
            (CollectCalls[k].op = "step" /\ CollectCalls[k].done) => k = n
       /\ SubSeq(trace, 1, n) = CollectCalls
       /\ pc \in AfterReturn =>
            /\ CollectCalls[n].op = "step"
            /\ CollectCalls[n].done
            /\ n = 2 * Len(returned.reward) + 1

\* run_episode has returned after two steps, the first of which did not
\* return done
C3_Witness ==
    /\ pc = "reward"
    /\ Len(trace) = 5
    /\ ~trace[3].done
    /\ trace[5].done

-----------------------------------------------------------------------------
(* C4 *)

\* 0.99
Gamma == <<99, 100>>

RECURSIVE RPow(_, _)
RPow(x, n) == IF n = 0 THEN Rat(1) ELSE RMul(x, RPow(x, n - 1))

\* sum over k = idx..T of 0.99^(k - idx) * rs[k]
ReturnToGo(rs, idx) ==
    RSum([k \in 1..(Len(rs) - idx + 1) |->
            RMul(RPow(Gamma, k - 1), rs[idx + k - 1])])

\* C4: when the discount loop of Agent.train has run (and the baseline is
\* not yet subtracted), entry idx of the reward list is the sum over
\* k >= idx of 0.99^(k - idx) times the raw reward k; rewards [1, 1, 1] have
\* become [2.9701, 1.99, 1.0].
C4_ReturnToGo ==
    pc = "arrays" =>
        /\ Len(episode.reward) = Len(returned.reward)
        /\ \A idx \in 1..Len(returned.reward) :
            episode.reward[idx] = ReturnToGo(returned.reward, idx)
        /\ returned.reward = <<Rat(1), Rat(1), Rat(1)>> =>
            episode.reward = << <<29701, 10000>>, <<199, 100>>, <<1, 1>> >>

\* the discount loop has run on the rewards [1, 1, 1]
C4_Witness ==
    /\ pc = "arrays"
    /\ returned.reward = <<Rat(1), Rat(1), Rat(1)>>

-----------------------------------------------------------------------------
(* C5 *)

\* C5 as stated: when Agent.train has returned, the Episode holds the values
\* it held when run_episode returned it.
C5_ReadOnly == pc = "print" => episode = returned

\* C5, amended: when Agent.train has returned, episode.observation and
\* episode.action hold the values they held when run_episode returned the
\* Episode, and episode.reward[idx] holds the discounted return-to-go from
\* step idx (the baseline is not subtracted from it).
C5_RewardOverwritten ==
    pc = "print" =>
        /\ episode.observation = returned.observation
        /\ episode.action = returned.action
        /\ Len(episode.reward) = Len(returned.reward)
        /\ \A idx \in 1..Len(returned.reward) :
            episode.reward[idx] = ReturnToGo(returned.reward, idx)

\* Agent.train has returned from an Episode of two steps whose second reward
\* was 1, and the first reward is no longer what the environment returned
C5_Witness ==
    /\ pc = "print"
    /\ Len(returned.reward) = 2
    /\ returned.reward[2] = Rat(1)
    /\ episode.reward[1] # returned.reward[1]

-----------------------------------------------------------------------------
(* C6 *)

\* C6: for a non-empty Episode, once Agent.train has subtracted the mean, the
\* array r has one entry per step, and its sum, and so its mean, is 0.
C6_BaselineZeroMean ==
    (pc = "forward" /\ returned.reward # <<>>) =>
        /\ Len(r) = Len(returned.reward)
        /\ RSum(r) = Rat(0)
        /\ RDivInt(RSum(r), Len(r)) = Rat(0)

\* the mean has been subtracted from three returns, the first of which was
\* not equal to the mean
C6_Witness ==
    /\ pc = "forward"
    /\ Len(r) = 3
    /\ r[1] # Rat(0)

-----------------------------------------------------------------------------
(* C7 *)

\* what the round's history holds of Agent.train at each position
C7_State ==
    /\ num_update = updates
    /\ pc \in (Collecting \cup {"reward", "train", "arrays", "forward", "backward"}) =>
        TrainCalls = <<>> /\ num_update = i
    /\ pc = "trainer_step" =>
        TrainCalls = <<Call("backward", 0, 0, 0, FALSE, 0)>> /\ num_update = i
    /\ pc = "print" =>
        /\ TrainCalls = <<Call("backward", 0, 0, 0, FALSE, 0),
                          Call("trainer_step", 0, 0, 0, FALSE,
                               Len(returned.observation))>>
        /\ num_update = i + 1

\* which steps change the parameters
C7_Step ==
    /\ (net' # net \/ num_update' # num_update) =>
        (pc = "trainer_step" /\ pc' = "print" /\ num_update' = num_update + 1)
    /\ pc \in Collecting => (net' = net /\ num_update' = num_update)

\* C7: a call of Agent.train makes exactly one backward pass and then exactly
\* one optimizer step, whose batch size is the number of steps of the
\* Episode; that optimizer step is the one update of the parameters in the
\* round, and nothing in run_episode or Agent.act changes them.
C7_OneUpdatePerTrain == [](C7_State) /\ [][C7_Step]_vars

\* the second round's Agent.train has returned from an Episode of two steps
C7_Witness ==
    /\ pc = "print"
    /\ Len(returned.observation) = 2
    /\ num_update = 2

-----------------------------------------------------------------------------
(* C8 *)

\* how many collections and updates are complete at each position of round i
C8_State ==
    /\ i <= n_episodes
    /\ pc \in ({"for"} \cup Collecting) => (collections = i /\ updates = i)
    /\ pc \in ({"reward"} \cup Updating) => (collections = i + 1 /\ updates = i)
    /\ pc = "print" => (collections = i + 1 /\ updates = i + 1)
    /\ pc = "done" =>
        (i = n_episodes /\ collections = n_episodes /\ updates = n_episodes)

\* the policy is frozen while collecting, the environment idle while updating
C8_Step ==
    /\ pc \in Collecting => net' = net
    /\ pc \in Updating =>
        /\ CollectCalls' = CollectCalls
        /\ episode.observation' = episode.observation
        /\ episode.action' = episode.action
    /\ collections' # collections => (pc \in Collecting /\ pc' = "reward")
    /\ updates' # updates => (pc \in Updating /\ pc' = "print")

\* C8: round i collects (run_episode) and then updates (Agent.train), each
\* once and in this order, round i+1 starts after round i's update, the
\* parameters do not change while an Episode is collected, the environment is
\* not called while the policy is updated, and the loop ends after exactly
\* n_episodes collections and n_episodes updates.
C8_Alternation == [](C8_State) /\ [][C8_Step]_vars

\* the loop has ended after n_episodes rounds
C8_Witness == pc = "done" /\ collections = n_episodes /\ updates = n_episodes

-----------------------------------------------------------------------------
(* C9 *)

\* run_episode has returned only if some step returned done
C9_ReturnedOnlyIfDone ==
    pc \in AfterReturn =>
        \E k \in 1..Len(trace) : trace[k].op = "step" /\ trace[k].done

\* at the loop head with done false, the loop body is entered again, however
\* many steps were taken (up to the environment's bound in this model)
C9_NoStepCap ==
    (pc = "while" /\ ~done /\ Len(episode.reward) < MaxSteps) => ENABLED AgentAct

\* C9: run_episode returns only after a step returned done; as long as no
\* step has returned done the loop goes on, whatever the number of steps; and
\* once a step has returned done, run_episode returns.
C9_TerminatesIffDone ==
    /\ [](C9_ReturnedOnlyIfDone)
    /\ [](C9_NoStepCap)
    /\ [][(pc = "while" /\ ~done) => pc' = "step"]_vars
    /\ ((pc = "while" /\ done) ~> (pc = "reward"))

\* the environment returned done only at the last step the model lets it
\* play, and run_episode returned then
C9_Witness ==
    /\ pc = "reward"
    /\ Len(returned.reward) = MaxSteps
    /\ \A k \in 1..(Len(trace) - 1) : ~trace[k].done

-----------------------------------------------------------------------------
(* C10 *)

\* C10 as stated: an Episode of zero steps handed to Agent.train is rejected
\* at once: train raises before it computes anything, and the parameters
\* stay as they were.
C10_EmptyRejected ==
    returned.observation = <<>> =>
        /\ pc \in {"train", "raised"}
        /\ ~grad
        /\ num_update = 0

-----------------------------------------------------------------------------
(* C11 *)

\* the round's environment terminated after exactly two steps with rewards
\* [1, 1], and the policy is uniform on both recorded observations
C11_Scenario ==
    /\ returned.reward = <<Rat(1), Rat(1)>>
    /\ \A t \in 1..Len(returned.observation) :
        softmax(net[returned.observation[t]]) = <<500000, 500000>>

\* C11: in a round whose environment terminates after exactly 2 steps with
\* rewards [1, 1] and whose policy is uniform, run_episode returns an Episode
\* of length 2, the discount loop leaves the returns [1.99, 1.0], the baseline
\* subtraction leaves [0.495, -0.495], the loss is one finite scalar, and
\* nothing raises.
C11_EndToEnd ==
    (C11_Scenario /\ pc \in ({"reward"} \cup Updating)) =>
        /\ Len(returned.observation) = 2
        /\ Len(returned.action) = 2
        /\ ~raised
        /\ pc \in {"arrays", "forward", "backward", "trainer_step"} =>
            episode.reward = << <<199, 100>>, <<1, 1>> >>
        /\ pc \in {"forward", "backward", "trainer_step"} =>
            r = << <<99, 200>>, <<0 - 99, 200>> >>
        /\ pc \in {"backward", "trainer_step"} =>
            /\ loss \in Int \X Int
            /\ IsFinite(loss)

\* the cycle of the scenario has computed its loss and run the backward pass
C11_Witness ==
    /\ C11_Scenario
    /\ pc = "trainer_step"
    /\ grad
    /\ IsFinite(loss)
    /\ r = << <<99, 200>>, <<0 - 99, 200>> >>

-----------------------------------------------------------------------------
(* C12 *)

\* one value per completed episode, and the last one is mean_reward
C12_State ==
    /\ Len(reward_log) = (IF pc \in (Updating \cup {"print"}) THEN i + 1 ELSE i)
    /\ pc \in (Updating \cup {"print"}) => Len(reward_log) = collections
    /\ Len(reward_log) >= 1 => mean_reward = reward_log[Len(reward_log)]
    /\ pc = "done" => Len(reward_log) = n_episodes

\* the recurrence, at the one step of a round that touches the average
C12_Step ==
    (reward_log' # reward_log \/ mean_reward' # mean_reward) =>
        LET k == Len(reward_log)
            reward_k == RSum(returned.reward)
        IN /\ pc = "reward"
           /\ k = i
           /\ reward_log' = Append(reward_log, mean_reward')
           /\ k = 0 => mean_reward' = reward_k
           /\ k >= 1 =>
                mean_reward' = RAdd(RMul(<<99, 100>>, reward_log[k]),
                                    RMul(<<1, 100>>, reward_k))

\* C12: the moving average starts as the total reward of the first episode
\* and afterwards is 0.99 times the previous average plus 0.01 times the
\* total reward of the episode just collected; every episode appends exactly
\* one value, the new average, to reward_log, so after k episodes reward_log
\* has k entries and entry i is the average after episode i.
C12_MovingAverage == [](C12_State) /\ [][C12_Step]_vars

\* the second episode has been averaged in, and it changed the average
C12_Witness ==
    /\ pc = "train"
    /\ i = 1
    /\ Len(reward_log) = 2
    /\ reward_log[2] # reward_log[1]
    /\ reward_log[1] # Rat(0)

-----------------------------------------------------------------------------
(* C13 *)

\* C13: for an Episode of exactly one step, the discount loop leaves the raw
\* reward, the mean of the returns is that reward, the baseline-subtracted
\* return is 0, and the loss is 0 whatever the action, the policy output and
\* the reward are.
C13_SingleStep ==
    (Len(returned.reward) = 1 /\ pc \in Updating) =>
        /\ pc # "train" => episode.reward = returned.reward
        /\ pc = "arrays" => mean(episode.reward) = returned.reward[1]
        /\ pc \in {"forward", "backward", "trainer_step"} => r = <<Rat(0)>>
        /\ pc \in {"backward", "trainer_step"} => loss = Rat(0)

\* the loss of a one-step Episode with a non-zero reward has been computed
\* under a saturated policy
C13_Witness ==
    /\ pc = "backward"
    /\ Len(returned.reward) = 1
    /\ returned.reward[1] # Rat(0)
    /\ softmax(net[returned.observation[1]]) # <<500000, 500000>>

-----------------------------------------------------------------------------
(* C14 *)

\* the round's reward is the sum of the rewards the environment returned
C14_State ==
    /\ pc \in (Updating \cup {"print"}) => reward = RSum(returned.reward)
    /\ (pc \in (Updating \cup {"print"}) /\ i = 0) =>
        mean_reward = RSum(returned.reward)
    /\ (pc \in (Updating \cup {"print"}) /\ i >= 1) =>
        mean_reward = RAdd(RMul(<<99, 100>>, reward_log[i]),
                           RMul(<<1, 100>>, RSum(returned.reward)))
    /\ pc = "print" =>
        (RSum(episode.reward) # reward
            <=> \E k \in 2..Len(returned.reward) : returned.reward[k] # Rat(0))

\* the sum is taken before Agent.train touches the Episode, and it is the
\* value that is printed
C14_Step ==
    /\ (reward' # reward /\ pc # "print") =>
        /\ pc = "reward"
        /\ episode = returned
        /\ reward' = RSum(returned.reward)
    /\ episode.reward' # episode.reward =>
        pc \in {"step", "train", "print"}
    /\ printed' # printed /\ pc = "print" =>
        printed' = Append(printed, <<i, RSum(returned.reward), mean_reward>>)

\* C14: in every round the reward that is printed and averaged is the sum of
\* the raw rewards of the environment: it is computed before Agent.train
\* runs, Agent.train then overwrites episode.reward, and the sum of
\* episode.reward after Agent.train differs from it exactly when a step after
\* the first one had a non-zero reward.
C14_RawRewardSum == [](C14_State) /\ [][C14_Step]_vars

\* Agent.train has returned from a two-step Episode with rewards [1, 1]: the
\* round's reward is 2, the sum of episode.reward is now 2.99
C14_Witness ==
    /\ pc = "print"
    /\ reward = Rat(2)
    /\ RSum(episode.reward) = <<299, 100>>

-----------------------------------------------------------------------------
(* C15 *)

\* C15: after any sequence of reset and step calls on an
\* AtariPreprocessedEnv, every reset returned the all-zero vector, every step
\* returned its preprocessed frame minus the preprocessed frame of the call
\* just before it (a step that is the first call of all has no such frame and
\* returned zeros), pre_image holds the preprocessed frame of the last call,
\* and what the wrapper returned last is what the last call returned; as a
\* reset returns zeros whatever preceded it, no frame of an earlier episode
\* enters a difference.
C15_FrameDifference ==
    LET n == Len(history)
    IN /\ \A k \in 1..n :
            /\ history[k].op = "reset" =>
                \A p \in DOMAIN history[k].out : history[k].out[p] = 0
            /\ (history[k].op = "step" /\ k > 1) =>
                /\ DOMAIN history[k].out = DOMAIN history[k].frame
                /\ \A p \in DOMAIN history[k].out :
                    history[k].out[p] = history[k].frame[p] - history[k - 1].frame[p]
            /\ (history[k].op = "step" /\ k = 1) =>
                \A p \in DOMAIN history[k].out : history[k].out[p] = 0
            /\ Len(history[k].out) = Len(history[k].frame)
       /\ n = 0 => pre_image = None
       /\ n >= 1 =>
            /\ pre_image = history[n].frame
            /\ atari_return = history[n].out

\* reset, a step whose difference is not zero, then the reset of the next
\* episode on a frame that differs from the last frame of the episode before
C15_Witness ==
    /\ Len(history) = 3
    /\ history[1].op = "reset"
    /\ history[2].op = "step"
    /\ history[2].out # zeros_like(history[2].out)
    /\ history[3].op = "reset"
    /\ history[3].frame # history[2].frame
    /\ pre_image = history[3].frame

====
